---- MODULE Spec2Model ----
(***************************************************************************)
(* A model of src/os.cpp: os_path_split, os_write_file, os_spawn_process,  *)
(* os_exec_process and read_all_fd.                                        *)
(*                                                                         *)
(* Strings are sequences of one-character strings.  Indexes into a string  *)
(* are 0-based as in the C++ code (At).  os_path_split is checked under   *)
(* SpecSplit, os_write_file under SpecWrite, the two process functions     *)
(* under Spec, and under SpecFair where the parent's progress matters.     *)
(***************************************************************************)
EXTENDS Integers, Sequences, FiniteSets, TLC

VARIABLES
    \* ---- os_path_split ----
    s_pc,           \* "call" | "done"
    full_path,      \* the input path
    out_dirname,    \* the outputs (empty before the call)
    out_basename,
    s_reads,        \* history: the indexes of full_path the call read
    s_copies,       \* history: the [off, len] ranges of full_path it copied
    \* ---- os_write_file ----
    w_pc,           \* "idle" | "open" | "write" | "close" | "returned" | "panicked"
    fs,             \* the file system: path -> [exists, content]
    w_path,         \* full_path of the current call
    w_contents,     \* contents of the current call
    w_fd,           \* TRUE while the descriptor of the call is open
    amt_written,    \* what write() returned (NoAmt before)
    w_prior,        \* history: the file at w_path when the call started
    w_failed,       \* history: a primitive of the current call has failed
    w_nwrites,      \* history: number of write() calls of the current call
    \* ---- os_spawn_process, os_exec_process ----
    call,           \* "none" | "spawn" | "exec": the function called
    args,           \* the argument list of the call
    detached,       \* the flag of os_spawn_process
    ppc,            \* where the calling process (the parent) is
    cpc,            \* where the forked child is ("none" before fork)
    fdt,            \* process -> descriptor -> what it refers to
    pipefd,         \* stdin_pipe, stdout_pipe, stderr_pipe: <<[0], [1]>>
    pipes,          \* pipe -> the bytes in it
    out_buf,        \* out_stdout and out_stderr
    actual_buf_len, \* the local of read_all_fd
    return_code,    \* <<status>> once written, <<>> before
    argv,           \* the vector the child passes to execvp
    session,        \* the child's session: "caller" | "new"
    prog,           \* what the executed program does
    written,        \* stream -> bytes the program has written so far
    cstatus,        \* <<wait status>> of the terminated child
    setup_failed,   \* history: processes in which a setup primitive failed
    exec_failed,    \* history: execvp returned
    waited,         \* history: the parent called waitpid
    total_read,     \* history: stream -> sum of the counts its reads returned
    last_read       \* history: the last read: count asked for, room at ptr

splitVars == <<s_pc, full_path, out_dirname, out_basename, s_reads,
               s_copies>>
writeVars == <<w_pc, fs, w_path, w_contents, w_fd, amt_written, w_prior,
               w_failed, w_nwrites>>
procVars  == <<call, args, detached, ppc, cpc, fdt, pipefd, pipes, out_buf,
               actual_buf_len, return_code, argv, session, prog, written,
               cstatus, setup_failed, exec_failed, waited, total_read,
               last_read>>
readHist  == <<total_read, last_read>>
vars == <<splitVars, writeVars, procVars>>

----------------------------------------------------------------------------
(* Values that stand for "nothing there". *)
NoFile == [exists |-> FALSE, content |-> <<>>]
NoAmt  == "NoAmt"

File(c) == [exists |-> TRUE, content |-> c]

Min(a, b) == IF a < b THEN a ELSE b

(* zig_panic (util.hpp, not among the sources): prints a diagnostic and    *)
(* terminates the calling process; it does not return.  A process that     *)
(* called it stays at this position for ever.                              *)
zig_panic == "panicked"

----------------------------------------------------------------------------
(* os_path_split                                                           *)

MaxPathLen == 4
PathChars  == {"/", "a", "b"}

(* The inputs: every string over PathChars up to MaxPathLen, and the       *)
(* three examples of the documentation.                                    *)
PathInputs ==
    UNION {[1..k -> PathChars] : k \in 0..MaxPathLen}
    \cup {<<"a", "/", "b", "/", "c">>,
          <<"n", "o", "s", "l", "a", "s", "h">>,
          <<"a", "/", "b", "/">>}

(* buf_ptr(buf)[i] *)
At(buf, i) == buf[i + 1]

(* buf_len(buf) *)
buf_len(buf) == Len(buf)

(* buf_init_from_mem(out, ptr + off, len): an owned copy of len bytes.     *)
buf_init_from_mem(mem, off, len) == SubSeq(mem, off + 1, off + len)

(* buf_init_from_buf(out, buf): an owned copy of buf.                      *)
buf_init_from_buf(buf) == buf

(* os.cpp 59-62: the index the backward scan starts at.                    *)
LastIndex(p) ==
    LET last_index == buf_len(p) - 1
    IN  IF last_index >= 0 /\ At(p, last_index) = "/"
        THEN last_index - 1
        ELSE last_index

(* os.cpp 63-70: the first i, going down from `from`, with p[i] = '/';     *)
(* -1 when the loop ends without finding one.                              *)
RECURSIVE ScanBack(_, _)
ScanBack(p, i) ==
    IF i < 0 THEN -1
    ELSE IF At(p, i) = "/" THEN i
    ELSE ScanBack(p, i - 1)

(* A variant of os_path_split: with no separator found, the basename is   *)
(* the input up to the index the scan started at, without the separator    *)
(* that was skipped.                                                       *)
os_path_split_TrimmedBase(p) ==
    LET i == ScanBack(p, LastIndex(p))
    IN  IF i >= 0
        THEN [dirname  |-> buf_init_from_mem(p, 0, i),
              basename |-> buf_init_from_mem(p, i + 1, buf_len(p) - (i + 1))]
        ELSE [dirname  |-> <<".">>,
              basename |-> buf_init_from_mem(p, 0, LastIndex(p) + 1)]

(* os.cpp 58-73 *)
os_path_split(p) ==
    LET i == ScanBack(p, LastIndex(p))
    IN  IF i >= 0
        THEN [dirname  |-> buf_init_from_mem(p, 0, i),
              basename |-> buf_init_from_mem(p, i + 1, buf_len(p) - (i + 1))]
        ELSE [dirname  |-> <<".">>,
              basename |-> buf_init_from_buf(p)]

(* os.cpp 64: the indexes the loop reads, going down from i.              *)
RECURSIVE ScanReads(_, _)
ScanReads(p, i) ==
    IF i < 0 THEN {}
    ELSE IF At(p, i) = "/" THEN {i}
    ELSE {i} \cup ScanReads(p, i - 1)

(* os.cpp 60 and 64: every index of buf_ptr(full_path) the function reads. *)
(* Line 60 reads index last_index only when last_index >= 0.               *)
SplitReads(p) ==
    (IF buf_len(p) - 1 >= 0 THEN {buf_len(p) - 1} ELSE {})
    \cup ScanReads(p, LastIndex(p))

(* A variant of SplitCopies: the length of the basename is taken one too   *)
(* long.                                                                   *)
SplitCopies_OffByOne(p) ==
    LET i == ScanBack(p, LastIndex(p))
    IN  IF i >= 0
        THEN {[off |-> 0, len |-> i],
              [off |-> i + 1, len |-> buf_len(p) - i]}
        ELSE {[off |-> 0, len |-> buf_len(p)]}

(* os.cpp 66, 67 and 72: the ranges of full_path that are copied, as       *)
(* offset from buf_ptr(full_path) and length.                              *)
SplitCopies(p) ==
    LET i == ScanBack(p, LastIndex(p))
    IN  IF i >= 0
        THEN {[off |-> 0, len |-> i],
              [off |-> i + 1, len |-> buf_len(p) - (i + 1)]}
        ELSE {[off |-> 0, len |-> buf_len(p)]}

InitSplitVars ==
    /\ s_pc = "call"
    /\ full_path \in PathInputs
    /\ out_dirname = <<>>
    /\ out_basename = <<>>
    /\ s_reads = {}
    /\ s_copies = {}

(* The call os_path_split(full_path, &out_dirname, &out_basename).         *)
SplitCall ==
    /\ s_pc = "call"
    /\ out_dirname' = os_path_split(full_path).dirname
    /\ out_basename' = os_path_split(full_path).basename
    /\ s_reads' = SplitReads(full_path)
    /\ s_copies' = SplitCopies(full_path)
    /\ s_pc' = "done"
    /\ UNCHANGED <<full_path, writeVars, procVars>>

----------------------------------------------------------------------------
(* os_write_file                                                           *)

MaxContentLen == 2
Bytes    == {0, 1}
Paths    == {"p", "q"}
Contents == UNION {[1..k -> Bytes] : k \in 0..MaxContentLen}

(* A file after n bytes of data are written at offset 0: the bytes         *)
(* replace the first n bytes of the file, the rest of the file stays.      *)
WriteAtStart(old, data) ==
    data \o SubSeq(old, Len(data) + 1, Len(old))

InitWriteVars ==
    /\ w_pc = "idle"
    /\ fs \in [Paths -> {NoFile, File(<<>>), File(<<1, 0>>)}]
    /\ w_path = "p"
    /\ w_contents = <<>>
    /\ w_fd = FALSE
    /\ amt_written = NoAmt
    /\ w_prior = NoFile
    /\ w_failed = FALSE
    /\ w_nwrites = 0

(* The caller calls os_write_file(p, B); a call that returned may be       *)
(* followed by another one.                                                *)
WriteFileCall(p, B) ==
    /\ w_pc \in {"idle", "returned"}
    /\ w_pc' = "open"
    /\ w_path' = p
    /\ w_contents' = B
    /\ w_prior' = fs[p]
    /\ amt_written' = NoAmt
    /\ w_failed' = FALSE
    /\ w_nwrites' = 0
    /\ UNCHANGED <<fs, w_fd, splitVars, procVars>>

(* A variant of WriteOpenOk: open without O_TRUNC, an existing file keeps  *)
(* its content.                                                            *)
WriteOpenOk_NoTrunc ==
    /\ w_pc = "open"
    /\ fs' = [fs EXCEPT ![w_path] = IF @.exists THEN @ ELSE File(<<>>)]
    /\ w_fd' = TRUE
    /\ w_pc' = "write"
    /\ UNCHANGED <<w_path, w_contents, amt_written, w_prior, w_failed,
                   w_nwrites, splitVars, procVars>>

(* os.cpp 128: open(O_CREAT|O_CLOEXEC|O_WRONLY|O_TRUNC) succeeds: the file *)
(* exists and is empty.                                                    *)
WriteOpenOk ==
    /\ w_pc = "open"
    /\ fs' = [fs EXCEPT ![w_path] = File(<<>>)]
    /\ w_fd' = TRUE
    /\ w_pc' = "write"
    /\ UNCHANGED <<w_path, w_contents, amt_written, w_prior, w_failed,
                   w_nwrites, splitVars, procVars>>

(* os.cpp 128-129: open returns -1.                                        *)
WriteOpenFail ==
    /\ w_pc = "open"
    /\ w_failed' = TRUE
    /\ w_pc' = zig_panic
    /\ UNCHANGED <<fs, w_path, w_contents, w_fd, amt_written, w_prior,
                   w_nwrites, splitVars, procVars>>

(* A variant of WriteWrite: the count write returns is not compared with   *)
(* the buffer's length.                                                    *)
WriteWrite_Unchecked ==
    /\ w_pc = "write"
    /\ \E n \in -1..buf_len(w_contents) :
          /\ amt_written' = n
          /\ fs' = IF n >= 0
                   THEN [fs EXCEPT ![w_path] =
                            File(WriteAtStart(@.content,
                                              SubSeq(w_contents, 1, n)))]
                   ELSE fs
          /\ w_failed' = (w_failed \/ n # buf_len(w_contents))
    /\ w_pc' = "close"
    /\ w_nwrites' = w_nwrites + 1
    /\ UNCHANGED <<w_path, w_contents, w_fd, w_prior, splitVars, procVars>>

(* os.cpp 130-132: one write() of the whole buffer.  The system writes n   *)
(* bytes, 0 <= n <= len, or fails with -1; anything but len is fatal.      *)
WriteWrite ==
    /\ w_pc = "write"
    /\ \E n \in -1..buf_len(w_contents) :
          /\ amt_written' = n
          /\ fs' = IF n >= 0
                   THEN [fs EXCEPT ![w_path] =
                            File(WriteAtStart(@.content,
                                              SubSeq(w_contents, 1, n)))]
                   ELSE fs
          /\ IF n # buf_len(w_contents)
             THEN w_failed' = TRUE /\ w_pc' = zig_panic
             ELSE w_failed' = w_failed /\ w_pc' = "close"
    /\ w_nwrites' = w_nwrites + 1
    /\ UNCHANGED <<w_path, w_contents, w_fd, w_prior, splitVars, procVars>>

(* os.cpp 133: close(fd) succeeds, the function returns.                   *)
WriteCloseOk ==
    /\ w_pc = "close"
    /\ w_fd' = FALSE
    /\ w_pc' = "returned"
    /\ UNCHANGED <<fs, w_path, w_contents, amt_written, w_prior, w_failed,
                   w_nwrites, splitVars, procVars>>

(* os.cpp 133-134: close(fd) returns -1 (the descriptor is released all    *)
(* the same).                                                              *)
WriteCloseFail ==
    /\ w_pc = "close"
    /\ w_fd' = FALSE
    /\ w_failed' = TRUE
    /\ w_pc' = zig_panic
    /\ UNCHANGED <<fs, w_path, w_contents, amt_written, w_prior, w_nwrites,
                   splitVars, procVars>>

----------------------------------------------------------------------------
(* Processes, descriptors, pipes and buffers of captured output            *)

MaxFds   == 9          \* descriptors per process: 0 .. MaxFds - 1
PipeCap  == 65536      \* bytes a pipe holds before a writer blocks
MaxArgs  == 2          \* longest argument list
buf_size == 8192       \* os.cpp 41

Procs     == {"parent", "child"}
PipeNames == {"in", "out", "err"}
Streams   == {"out", "err"}
ArgWords  == {"x", "y"}
ArgLists  == UNION {[1..k -> ArgWords] : k \in 0..MaxArgs}
exe       == "exe"
nullptr   == "nullptr"

(* What a descriptor refers to. *)
Closed       == <<"none", "none">>
Tty          == <<"tty", "rw">>
ReadEnd(p)   == <<p, "r">>
WriteEnd(p)  == <<p, "w">>
ClosedTable  == [fd \in 0..(MaxFds - 1) |-> Closed]
StdTable     == [fd \in 0..(MaxFds - 1) |-> IF fd <= 2 THEN Tty ELSE Closed]

(* STDIN_FILENO, STDOUT_FILENO, STDERR_FILENO, by the pipe redirected to   *)
(* it.                                                                     *)
StdFd(p) == CASE p = "in" -> 0 [] p = "out" -> 1 [] p = "err" -> 2

(***************************************************************************)
(* Bytes by provenance.  The byte sequences the child writes are never     *)
(* inspected by the code, only moved, so a run of bytes is recorded by     *)
(* where it comes from: [src, off, len] is bytes off .. off+len-1 of the   *)
(* stream the child wrote to src ("out": its standard output, "err": its   *)
(* standard error); src = "uninit" is len bytes of memory that was never   *)
(* written, whose values are arbitrary.  A pipe's content and a Buf are    *)
(* sequences of such runs, adjacent runs merged.  A Buf equals the stream  *)
(* S for every S exactly when it is the one run [src, 0, |S|].             *)
(***************************************************************************)
Run(s, o, n) == [src |-> s, off |-> o, len |-> n]
Uninit(n)    == Run("uninit", 0, n)

(* The stream of n bytes written to s, as a Buf. *)
Stream(s, n) == IF n = 0 THEN <<>> ELSE <<Run(s, 0, n)>>

Joins(a, b) ==
    /\ a.src = b.src
    /\ a.src = "uninit" \/ a.off + a.len = b.off

Merge(a, b) == Run(a.src, a.off, a.len + b.len)

(* Concatenation of two Bufs. *)
Cat(a, b) ==
    IF a = <<>> THEN b
    ELSE IF b = <<>> THEN a
    ELSE IF Joins(a[Len(a)], b[1])
         THEN SubSeq(a, 1, Len(a) - 1) \o <<Merge(a[Len(a)], b[1])>> \o Tail(b)
         ELSE a \o b

(* buf_len of a Buf of runs *)
RECURSIVE BufLen(_)
BufLen(b) == IF b = <<>> THEN 0 ELSE b[1].len + BufLen(Tail(b))

(* The first n bytes of b (n <= BufLen(b)). *)
RECURSIVE BufTake(_, _)
BufTake(b, n) ==
    IF n = 0 \/ b = <<>> THEN <<>>
    ELSE IF b[1].len <= n THEN <<b[1]>> \o BufTake(Tail(b), n - b[1].len)
    ELSE <<Run(b[1].src, b[1].off, n)>>

(* b without its first n bytes. *)
RECURSIVE BufDrop(_, _)
BufDrop(b, n) ==
    IF n = 0 \/ b = <<>> THEN b
    ELSE IF b[1].len <= n THEN BufDrop(Tail(b), n - b[1].len)
    ELSE <<Run(b[1].src,
               IF b[1].src = "uninit" THEN 0 ELSE b[1].off + n,
               b[1].len - n)>> \o Tail(b)

(* buf_resize(buf, new_len) (buffer.hpp): the first new_len bytes are      *)
(* kept; bytes added at the end are not initialised.                       *)
buf_resize(b, new_len) ==
    IF new_len <= BufLen(b)
    THEN BufTake(b, new_len)
    ELSE Cat(b, <<Uninit(new_len - BufLen(b))>>)

(* Memory b after data is stored at address ptr + at (at + |data| <=       *)
(* |b|).                                                                   *)
StoreAt(b, at, data) ==
    Cat(Cat(BufTake(b, at), data), BufDrop(b, at + BufLen(data)))

(* The processes holding a descriptor for d. *)
Holders(t, d) == {pr \in Procs : \E fd \in DOMAIN t[pr] : t[pr][fd] = d}

(* Wait statuses as waitpid reports them. *)
WaitStatusExited(c)     == (c % 256) * 256
WaitStatusSignaled(sig) == sig
WIFEXITED(s)   == s % 128 = 0
WEXITSTATUS(s) == (s \div 256) % 256
SIGABRT_STATUS == WaitStatusSignaled(6)

(* What the program run by the child does: it reads its standard input to  *)
(* the end (or not), writes outLen bytes to its standard output and errLen *)
(* bytes to its standard error, in one order or the other, and exits with  *)
(* code.                                                                   *)
OutLens   == {0, 1, buf_size, buf_size + 1, 2 * buf_size + 1, PipeCap,
              PipeCap + 1}
ErrLens   == {0, 1, buf_size + 1, PipeCap + 1}
ExitCodes == {0, 3}
Programs  == [outLen : OutLens, errLen : ErrLens, code : ExitCodes,
              readsStdin : BOOLEAN, errFirst : BOOLEAN]
NoProgram == [outLen |-> 0, errLen |-> 0, code |-> 0,
              readsStdin |-> FALSE, errFirst |-> FALSE]

InitProcVars ==
    /\ call = "none"
    /\ args = <<>>
    /\ detached = FALSE
    /\ ppc = "idle"
    /\ cpc = "none"
    /\ fdt = [pr \in Procs |-> IF pr = "parent" THEN StdTable ELSE ClosedTable]
    /\ pipefd = [p \in PipeNames |-> <<0, 0>>]
    /\ pipes = [p \in PipeNames |-> <<>>]
    /\ out_buf = [s \in Streams |-> <<>>]
    /\ actual_buf_len = 0
    /\ return_code = <<>>
    /\ argv = <<>>
    /\ session = "caller"
    /\ prog = NoProgram
    /\ written = [s \in Streams |-> 0]
    /\ cstatus = <<>>
    /\ setup_failed = {}
    /\ exec_failed = FALSE
    /\ waited = FALSE
    /\ total_read = [s \in Streams |-> 0]
    /\ last_read = [count |-> 0, room |-> 0]

out_stdout  == out_buf["out"]
out_stderr  == out_buf["err"]
stdin_pipe  == pipefd["in"]
stdout_pipe == pipefd["out"]
stderr_pipe == pipefd["err"]

(* The process pr terminates: all its descriptors are closed.              *)
Terminated(t, pr) == [t EXCEPT ![pr] = ClosedTable]

(* The child terminates through zig_panic (abort).  The diagnostic it      *)
(* prints is not part of the streams the model follows.                    *)
ChildPanics ==
    /\ cpc' = zig_panic
    /\ cstatus' = <<SIGABRT_STATUS>>
    /\ fdt' = Terminated(fdt, "child")

(* The parent terminates through zig_panic.                                *)
ParentPanics ==
    /\ ppc' = zig_panic
    /\ fdt' = Terminated(fdt, "parent")

(* ---- os_spawn_process ------------------------------------------------- *)

(* The caller calls os_spawn_process(exe, a, d).                           *)
CallSpawn(a, d) ==
    /\ ppc = "idle"
    /\ call' = "spawn"
    /\ args' = a
    /\ detached' = d
    /\ ppc' = "spawn_fork"
    /\ UNCHANGED <<cpc, fdt, pipefd, pipes, out_buf, actual_buf_len,
                   return_code, argv, session, prog, written, cstatus,
                   setup_failed, exec_failed, waited, splitVars, writeVars, readHist>>

(* os.cpp 20-25: fork succeeds.  The child is a copy of the caller and     *)
(* goes on at line 25; the parent goes on at line 23.                      *)
SpawnFork ==
    /\ ppc = "spawn_fork"
    /\ ppc' = "spawn_parent"
    /\ cpc' = IF detached THEN "setsid" ELSE "argv"
    /\ fdt' = [fdt EXCEPT !["child"] = fdt["parent"]]
    /\ UNCHANGED <<call, args, detached, pipefd, pipes, out_buf,
                   actual_buf_len, return_code, argv, session, prog, written,
                   cstatus, setup_failed, exec_failed, waited, splitVars,
                   writeVars, readHist>>

(* os.cpp 20-22: fork returns -1.                                          *)
SpawnForkFail ==
    /\ ppc = "spawn_fork"
    /\ ParentPanics
    /\ setup_failed' = setup_failed \cup {"parent"}
    /\ UNCHANGED <<call, args, detached, cpc, pipefd, pipes, out_buf,
                   actual_buf_len, return_code, argv, session, prog, written,
                   cstatus, exec_failed, waited, splitVars, writeVars, readHist>>

(* A variant of SpawnParentReturn: the parent waits for the child before   *)
(* it returns.                                                             *)
SpawnParentReturn_Waits ==
    /\ ppc = "spawn_parent"
    /\ cpc \in {"exited", "panicked"}
    /\ waited' = TRUE
    /\ ppc' = "returned"
    /\ UNCHANGED <<call, args, detached, cpc, fdt, pipefd, pipes, out_buf,
                   actual_buf_len, return_code, argv, session, prog, written,
                   cstatus, setup_failed, exec_failed, splitVars, writeVars, readHist>>

(* os.cpp 23-24: in the parent pid != 0 and the function returns.          *)
SpawnParentReturn ==
    /\ ppc = "spawn_parent"
    /\ ppc' = "returned"
    /\ UNCHANGED <<call, args, detached, cpc, fdt, pipefd, pipes, out_buf,
                   actual_buf_len, return_code, argv, session, prog, written,
                   cstatus, setup_failed, exec_failed, waited, splitVars,
                   writeVars, readHist>>

(* os.cpp 25-26: setsid succeeds, the child leads a new session.           *)
ChildSetsid ==
    /\ cpc = "setsid"
    /\ session' = "new"
    /\ cpc' = "argv"
    /\ UNCHANGED <<call, args, detached, ppc, fdt, pipefd, pipes, out_buf,
                   actual_buf_len, return_code, argv, prog, written, cstatus,
                   setup_failed, exec_failed, waited, splitVars, writeVars, readHist>>

(* os.cpp 26-27: setsid returns -1.                                        *)
ChildSetsidFail ==
    /\ cpc = "setsid"
    /\ ChildPanics
    /\ setup_failed' = setup_failed \cup {"child"}
    /\ UNCHANGED <<call, args, detached, ppc, pipefd, pipes, out_buf,
                   actual_buf_len, return_code, argv, session, prog, written,
                   exec_failed, waited, splitVars, writeVars, readHist>>

(* A variant of BuildArgv: the loop stores args.at(i) in slot i, not in    *)
(* slot i + 1; a slot never stored keeps the zero it was allocated with.   *)
BuildArgv_OffByOne(e, a) ==
    [k \in 0..(Len(a) + 1) |->
        IF k < Len(a) THEN a[k + 1]
        ELSE IF k = 0 THEN e
        ELSE nullptr]

(* os.cpp 30-35 and 104-109: the vector for execvp, args.length + 2 slots. *)
BuildArgv(e, a) ==
    [k \in 0..(Len(a) + 1) |->
        IF k = 0 THEN e
        ELSE IF k = Len(a) + 1 THEN nullptr
        ELSE a[k]]

ChildBuildArgv ==
    /\ cpc = "argv"
    /\ argv' = BuildArgv(exe, args)
    /\ cpc' = "execvp"
    /\ UNCHANGED <<call, args, detached, ppc, fdt, pipefd, pipes, out_buf,
                   actual_buf_len, return_code, session, prog, written,
                   cstatus, setup_failed, exec_failed, waited, splitVars,
                   writeVars, readHist>>

(* Where a program starts. *)
FirstPhase(pr) == IF pr.readsStdin THEN "prog_stdin" ELSE "prog_write1"

(* os.cpp 36 and 110: execvp succeeds; the child is now the program pr,    *)
(* with the descriptors it had.                                            *)
ChildExecvp(pr) ==
    /\ cpc = "execvp"
    /\ prog' = pr
    /\ cpc' = FirstPhase(pr)
    /\ UNCHANGED <<call, args, detached, ppc, fdt, pipefd, pipes, out_buf,
                   actual_buf_len, return_code, argv, session, written,
                   cstatus, setup_failed, exec_failed, waited, splitVars,
                   writeVars, readHist>>

(* A variant of ChildExecvpFail: nothing ends the child after execvp       *)
(* returned, and it returns from the function.                             *)
ChildExecvpFail_Returns ==
    /\ cpc = "execvp"
    /\ exec_failed' = TRUE
    /\ cpc' = "returned"
    /\ UNCHANGED <<call, args, detached, ppc, fdt, pipefd, pipes, out_buf,
                   actual_buf_len, return_code, argv, session, prog, written,
                   cstatus, setup_failed, waited, splitVars, writeVars, readHist>>

(* os.cpp 36-37 and 110-111: execvp returns; zig_panic ends the child.     *)
ChildExecvpFail ==
    /\ cpc = "execvp"
    /\ exec_failed' = TRUE
    /\ ChildPanics
    /\ UNCHANGED <<call, args, detached, ppc, pipefd, pipes, out_buf,
                   actual_buf_len, return_code, argv, session, prog, written,
                   setup_failed, waited, splitVars, writeVars, readHist>>

(* ---- os_exec_process -------------------------------------------------- *)

(* The caller calls os_exec_process(exe, a, &return_code, &out_stderr,     *)
(* &out_stdout) with empty buffers.                                        *)
CallExec(a) ==
    /\ ppc = "idle"
    /\ call' = "exec"
    /\ args' = a
    /\ ppc' = "pipe_in"
    /\ UNCHANGED <<detached, cpc, fdt, pipefd, pipes, out_buf,
                   actual_buf_len, return_code, argv, session, prog, written,
                   cstatus, setup_failed, exec_failed, waited, splitVars,
                   writeVars, readHist>>

(* The order of the statements of os_exec_process, by pipe. *)
PipePc(p)  == CASE p = "in" -> "pipe_in"  [] p = "out" -> "pipe_out"
                [] p = "err" -> "pipe_err"
AfterPipe(p) == CASE p = "in" -> "pipe_out" [] p = "out" -> "pipe_err"
                  [] p = "err" -> "fork"
DupPc(p)   == CASE p = "in" -> "dup_in"   [] p = "out" -> "dup_out"
                [] p = "err" -> "dup_err"
AfterDup(p) == CASE p = "in" -> "dup_out" [] p = "out" -> "dup_err"
                 [] p = "err" -> "argv"
ClosePc(p) == CASE p = "in" -> "close_in" [] p = "out" -> "close_out"
                [] p = "err" -> "close_err"
AfterClose(p) == CASE p = "in" -> "close_out" [] p = "out" -> "close_err"
                   [] p = "err" -> "waitpid"

(* The end of pipe p the child's standard stream is made of, which is the  *)
(* end the parent closes: index 1 is pipe[0], index 2 is pipe[1].          *)
ChildEnd(p) == IF p = "in" THEN 1 ELSE 2

FreeFds(t) == {fd \in DOMAIN t : t[fd] = Closed}
Lowest(S)  == CHOOSE x \in S : \A y \in S : x <= y

(* os.cpp 83, 85, 87: pipe(p) succeeds: the two lowest free descriptors    *)
(* become the read end and the write end of a new, empty pipe.             *)
ExecPipe(p) ==
    /\ ppc = PipePc(p)
    /\ Cardinality(FreeFds(fdt["parent"])) >= 2
    /\ LET r == Lowest(FreeFds(fdt["parent"]))
           w == Lowest(FreeFds(fdt["parent"]) \ {r})
       IN  /\ pipefd' = [pipefd EXCEPT ![p] = <<r, w>>]
           /\ fdt' = [fdt EXCEPT !["parent"][r] = ReadEnd(p),
                                 !["parent"][w] = WriteEnd(p)]
    /\ ppc' = AfterPipe(p)
    /\ UNCHANGED <<call, args, detached, cpc, pipes, out_buf, actual_buf_len,
                   return_code, argv, session, prog, written, cstatus,
                   setup_failed, exec_failed, waited, splitVars, writeVars, readHist>>

(* os.cpp 83-88: pipe(p) returns nonzero.                                  *)
ExecPipeFail(p) ==
    /\ ppc = PipePc(p)
    /\ ParentPanics
    /\ setup_failed' = setup_failed \cup {"parent"}
    /\ UNCHANGED <<call, args, detached, cpc, pipefd, pipes, out_buf,
                   actual_buf_len, return_code, argv, session, prog, written,
                   cstatus, exec_failed, waited, splitVars, writeVars, readHist>>

(* os.cpp 90-93, 112: fork succeeds.  The child has a copy of every        *)
(* descriptor of the parent and goes on at line 95, the parent at 114.     *)
ExecFork ==
    /\ ppc = "fork"
    /\ ppc' = "close_in"
    /\ cpc' = "dup_in"
    /\ fdt' = [fdt EXCEPT !["child"] = fdt["parent"]]
    /\ UNCHANGED <<call, args, detached, pipefd, pipes, out_buf,
                   actual_buf_len, return_code, argv, session, prog, written,
                   cstatus, setup_failed, exec_failed, waited, splitVars,
                   writeVars, readHist>>

(* os.cpp 90-92: fork returns -1.                                          *)
ExecForkFail ==
    /\ ppc = "fork"
    /\ ParentPanics
    /\ setup_failed' = setup_failed \cup {"parent"}
    /\ UNCHANGED <<call, args, detached, cpc, pipefd, pipes, out_buf,
                   actual_buf_len, return_code, argv, session, prog, written,
                   cstatus, exec_failed, waited, splitVars, writeVars, readHist>>

(* os.cpp 95, 98, 101: dup2(p_pipe[..], STD.._FILENO) succeeds in the      *)
(* child: the standard descriptor now refers to the pipe end.              *)
ChildDup2(p) ==
    /\ cpc = DupPc(p)
    /\ fdt' = [fdt EXCEPT !["child"][StdFd(p)] =
                              fdt["child"][pipefd[p][ChildEnd(p)]]]
    /\ cpc' = AfterDup(p)
    /\ UNCHANGED <<call, args, detached, ppc, pipefd, pipes, out_buf,
                   actual_buf_len, return_code, argv, session, prog, written,
                   cstatus, setup_failed, exec_failed, waited, splitVars,
                   writeVars, readHist>>

(* A variant of ChildDup2Fail: the result of dup2 is not looked at, the    *)
(* child goes on with the stream as it was.                                *)
ChildDup2Fail_Unchecked(p) ==
    /\ cpc = DupPc(p)
    /\ cpc' = AfterDup(p)
    /\ setup_failed' = setup_failed \cup {"child"}
    /\ UNCHANGED <<call, args, detached, ppc, fdt, pipefd, pipes, out_buf,
                   actual_buf_len, return_code, argv, session, prog, written,
                   cstatus, exec_failed, waited, splitVars, writeVars, readHist>>

(* os.cpp 95-102: dup2 returns -1.                                         *)
ChildDup2Fail(p) ==
    /\ cpc = DupPc(p)
    /\ ChildPanics
    /\ setup_failed' = setup_failed \cup {"child"}
    /\ UNCHANGED <<call, args, detached, ppc, pipefd, pipes, out_buf,
                   actual_buf_len, return_code, argv, session, prog, written,
                   exec_failed, waited, splitVars, writeVars, readHist>>

(* A variant of ParentClose: the parent goes on without closing its copy   *)
(* of the end the child uses.                                              *)
ParentClose_Skips(p) ==
    /\ ppc = ClosePc(p)
    /\ ppc' = AfterClose(p)
    /\ UNCHANGED <<call, args, detached, cpc, fdt, pipefd, pipes, out_buf,
                   actual_buf_len, return_code, argv, session, prog, written,
                   cstatus, setup_failed, exec_failed, waited, splitVars,
                   writeVars, readHist>>

(* os.cpp 114-116: the parent closes the end of pipe p the child uses.     *)
ParentClose(p) ==
    /\ ppc = ClosePc(p)
    /\ fdt' = [fdt EXCEPT !["parent"][pipefd[p][ChildEnd(p)]] = Closed]
    /\ ppc' = AfterClose(p)
    /\ UNCHANGED <<call, args, detached, cpc, pipefd, pipes, out_buf,
                   actual_buf_len, return_code, argv, session, prog, written,
                   cstatus, setup_failed, exec_failed, waited, splitVars,
                   writeVars, readHist>>

ChildHasTerminated == cpc \in {"exited", "panicked"}

(* os.cpp 118: waitpid(pid, return_code, 0) returns once the child has     *)
(* terminated and stores its wait status.                                  *)
Waitpid ==
    /\ ppc = "waitpid"
    /\ ChildHasTerminated
    /\ return_code' = cstatus
    /\ waited' = TRUE
    /\ ppc' = "read_out_enter"
    /\ UNCHANGED <<call, args, detached, cpc, fdt, pipefd, pipes, out_buf,
                   actual_buf_len, argv, session, prog, written, cstatus,
                   setup_failed, exec_failed, splitVars, writeVars, readHist>>

(* os.cpp 118: waitpid returns -1 (interrupted by a signal, or the child   *)
(* is not waitable); its result is not looked at, return_code is not       *)
(* written, and the function goes on.                                      *)
WaitpidFail ==
    /\ ppc = "waitpid"
    /\ waited' = TRUE
    /\ ppc' = "read_out_enter"
    /\ UNCHANGED <<call, args, detached, cpc, fdt, pipefd, pipes, out_buf,
                   actual_buf_len, return_code, argv, session, prog, written,
                   cstatus, setup_failed, exec_failed, splitVars, writeVars, readHist>>

(* ---- read_all_fd ------------------------------------------------------ *)

EnterPc(s) == IF s = "out" THEN "read_out_enter" ELSE "read_err_enter"
ReadPc(s)  == IF s = "out" THEN "read_out" ELSE "read_err"
AfterRead(s) == IF s = "out" THEN "read_err_enter" ELSE "returned"

(* os.cpp 41-43: read_all_fd(s_pipe[0], out_s) starts.                     *)
ReadAllFdEnter(s) ==
    /\ ppc = EnterPc(s)
    /\ out_buf' = [out_buf EXCEPT ![s] = buf_resize(@, buf_size)]
    /\ actual_buf_len' = 0
    /\ total_read' = [total_read EXCEPT ![s] = 0]
    /\ ppc' = ReadPc(s)
    /\ UNCHANGED <<call, args, detached, cpc, fdt, pipefd, pipes,
                   return_code, argv, session, prog, written, cstatus,
                   setup_failed, exec_failed, waited, last_read, splitVars,
                   writeVars>>

(* The pipe whose read end descriptor fd of the parent is.                 *)
PipeOfFd(fd) == fdt["parent"][fd][1]

(* read(fd, ptr, count) on a pipe returns at once with what is there, up   *)
(* to count bytes; with nothing there it returns 0 when no process holds   *)
(* the write end, and blocks otherwise.                                    *)
CanRead(p) == pipes[p] # <<>> \/ Holders(fdt, WriteEnd(p)) = {}

(* os.cpp 45: the count passed to read is buf_len(out_buf); the address   *)
(* passed is buf_ptr(out_buf), with buf_len(out_buf) bytes of room.        *)
ReadCount(s) == BufLen(out_buf[s])

(* A variant of ReadAllFdRead: the buffer is not resized to the bytes read *)
(* when the read returns 0.                                                *)
ReadAllFdRead_NoFinalResize(s) ==
    /\ ppc = ReadPc(s)
    /\ LET p == PipeOfFd(pipefd[s][1])
       IN  /\ CanRead(p)
           /\ \E amt_read \in {Min(BufLen(pipes[p]), ReadCount(s))} :
              \E stored \in {StoreAt(out_buf[s], 0,
                                     BufTake(pipes[p], amt_read))} :
                /\ pipes' = [pipes EXCEPT ![p] = BufDrop(@, amt_read)]
                /\ actual_buf_len' = actual_buf_len + amt_read
                /\ total_read' = [total_read EXCEPT ![s] = @ + amt_read]
                /\ last_read' = [count |-> ReadCount(s),
                                 room  |-> BufLen(out_buf[s])]
                /\ IF amt_read = 0
                   THEN /\ out_buf' = [out_buf EXCEPT ![s] =
                                          stored]
                        /\ ppc' = AfterRead(s)
                   ELSE /\ out_buf' = [out_buf EXCEPT ![s] =
                                          buf_resize(stored,
                                                     actual_buf_len + amt_read + buf_size)]
                        /\ ppc' = ppc
    /\ UNCHANGED <<call, args, detached, cpc, fdt, pipefd, return_code, argv,
                   session, prog, written, cstatus, setup_failed, exec_failed,
                   waited, splitVars, writeVars>>

(* A variant of ReadAllFdRead: after a read that returned bytes the buffer *)
(* is resized to twice its length.                                         *)
ReadAllFdRead_Doubles(s) ==
    /\ ppc = ReadPc(s)
    /\ LET p == PipeOfFd(pipefd[s][1])
       IN  /\ CanRead(p)
           /\ \E amt_read \in {Min(BufLen(pipes[p]), ReadCount(s))} :
              \E stored \in {StoreAt(out_buf[s], 0,
                                     BufTake(pipes[p], amt_read))} :
                /\ pipes' = [pipes EXCEPT ![p] = BufDrop(@, amt_read)]
                /\ actual_buf_len' = actual_buf_len + amt_read
                /\ total_read' = [total_read EXCEPT ![s] = @ + amt_read]
                /\ last_read' = [count |-> ReadCount(s),
                                 room  |-> BufLen(out_buf[s])]
                /\ IF amt_read = 0
                   THEN /\ out_buf' = [out_buf EXCEPT ![s] =
                                          buf_resize(stored, actual_buf_len + amt_read)]
                        /\ ppc' = AfterRead(s)
                   ELSE /\ out_buf' = [out_buf EXCEPT ![s] =
                                          buf_resize(stored,
                                                     2 * BufLen(out_buf[s]))]
                        /\ ppc' = ppc
    /\ UNCHANGED <<call, args, detached, cpc, fdt, pipefd, return_code, argv,
                   session, prog, written, cstatus, setup_failed, exec_failed,
                   waited, splitVars, writeVars>>

(* os.cpp 45-54: one turn of the loop of read_all_fd: a read of            *)
(* buf_len(out_buf) bytes to buf_ptr(out_buf) that does not fail, and the  *)
(* resize that follows it.                                                 *)
ReadAllFdRead(s) ==
    /\ ppc = ReadPc(s)
    /\ LET p == PipeOfFd(pipefd[s][1])
       IN  /\ CanRead(p)
           /\ \E amt_read \in {Min(BufLen(pipes[p]), ReadCount(s))} :
              \E stored \in {StoreAt(out_buf[s], 0,
                                     BufTake(pipes[p], amt_read))} :
                /\ pipes' = [pipes EXCEPT ![p] = BufDrop(@, amt_read)]
                /\ actual_buf_len' = actual_buf_len + amt_read
                /\ total_read' = [total_read EXCEPT ![s] = @ + amt_read]
                /\ last_read' = [count |-> ReadCount(s),
                                 room  |-> BufLen(out_buf[s])]
                /\ IF amt_read = 0
                   THEN /\ out_buf' = [out_buf EXCEPT ![s] =
                                          buf_resize(stored, actual_buf_len + amt_read)]
                        /\ ppc' = AfterRead(s)
                   ELSE /\ out_buf' = [out_buf EXCEPT ![s] =
                                          buf_resize(stored,
                                                     actual_buf_len + amt_read + buf_size)]
                        /\ ppc' = ppc
    /\ UNCHANGED <<call, args, detached, cpc, fdt, pipefd, return_code, argv,
                   session, prog, written, cstatus, setup_failed, exec_failed,
                   waited, splitVars, writeVars>>

(* os.cpp 45-47: read returns a negative count.                            *)
ReadAllFdError(s) ==
    /\ ppc = ReadPc(s)
    /\ ParentPanics
    /\ UNCHANGED <<call, args, detached, cpc, pipefd, pipes, out_buf,
                   actual_buf_len, return_code, argv, session, prog, written,
                   cstatus, setup_failed, exec_failed, waited, splitVars,
                   writeVars, readHist>>

(* ---- the program the child became ------------------------------------- *)

(* The stream a writing phase writes, and the phase after it. *)
PhaseStream(ph) ==
    IF (ph = "prog_write1") = prog.errFirst THEN "err" ELSE "out"
AfterPhase(ph) == IF ph = "prog_write1" THEN "prog_write2" ELSE "prog_exit"
StreamLen(s)   == IF s = "out" THEN prog.outLen ELSE prog.errLen

(* The program reads its standard input and finds its end.  A terminal     *)
(* may end at any time; a pipe ends when it is empty and no process holds  *)
(* its write end.                                                          *)
ProgReadStdin ==
    /\ cpc = "prog_stdin"
    /\ LET d == fdt["child"][0]
       IN  IF d = Tty THEN TRUE
           ELSE pipes[d[1]] = <<>> /\ Holders(fdt, WriteEnd(d[1])) = {}
    /\ cpc' = "prog_write1"
    /\ UNCHANGED <<call, args, detached, ppc, fdt, pipefd, pipes, out_buf,
                   actual_buf_len, return_code, argv, session, prog, written,
                   cstatus, setup_failed, exec_failed, waited, splitVars,
                   writeVars, readHist>>

(* Room left in pipe p. *)
Room(p) == PipeCap - BufLen(pipes[p])

(* The program is in a write of the rest of stream s to descriptor         *)
(* StdFd(s) and the pipe behind it is full.                                *)
WriteBlocked(s) ==
    /\ written[s] < StreamLen(s)
    /\ fdt["child"][StdFd(s)] # Tty
    /\ Room(fdt["child"][StdFd(s)][1]) = 0

(* The program writes the rest of a stream.  A terminal takes all of it;   *)
(* a pipe takes what it has room for, and the write goes on when there is  *)
(* room again.                                                             *)
ProgWrite ==
    /\ cpc \in {"prog_write1", "prog_write2"}
    /\ LET s    == PhaseStream(cpc)
           d    == fdt["child"][StdFd(s)]
           rest == StreamLen(s) - written[s]
           n    == IF d = Tty THEN rest ELSE Min(rest, Room(d[1]))
       IN  /\ ~WriteBlocked(s)
           /\ written' = [written EXCEPT ![s] = @ + n]
           /\ pipes' = IF d = Tty \/ n = 0 THEN pipes
                       ELSE [pipes EXCEPT ![d[1]] =
                                Cat(@, <<Run(s, written[s], n)>>)]
           /\ cpc' = IF n = rest THEN AfterPhase(cpc) ELSE cpc
    /\ UNCHANGED <<call, args, detached, ppc, fdt, pipefd, out_buf,
                   actual_buf_len, return_code, argv, session, prog, cstatus,
                   setup_failed, exec_failed, waited, splitVars, writeVars, readHist>>

(* The program exits with its code.                                        *)
ProgExit ==
    /\ cpc = "prog_exit"
    /\ cpc' = "exited"
    /\ cstatus' = <<WaitStatusExited(prog.code)>>
    /\ fdt' = Terminated(fdt, "child")
    /\ UNCHANGED <<call, args, detached, ppc, pipefd, pipes, out_buf,
                   actual_buf_len, return_code, argv, session, prog, written,
                   setup_failed, exec_failed, waited, splitVars, writeVars, readHist>>

----------------------------------------------------------------------------
(* Specifications                                                          *)

SplitIdle ==
    /\ s_pc = "call"
    /\ full_path = <<>>
    /\ out_dirname = <<>>
    /\ out_basename = <<>>
    /\ s_reads = {}
    /\ s_copies = {}

WriteIdle ==
    /\ InitWriteVars
    /\ fs = [p \in Paths |-> NoFile]

InitSplit == InitSplitVars /\ WriteIdle /\ InitProcVars
NextSplit == SplitCall
SpecSplit == InitSplit /\ [][NextSplit]_vars

InitWrite == InitWriteVars /\ SplitIdle /\ InitProcVars
NextWrite ==
    \/ \E p \in Paths, B \in Contents : WriteFileCall(p, B)
    \/ WriteOpenOk
    \/ WriteOpenFail
    \/ WriteWrite
    \/ WriteCloseOk
    \/ WriteCloseFail
SpecWrite == InitWrite /\ [][NextWrite]_vars

Init == InitProcVars /\ SplitIdle /\ WriteIdle
Next ==
    \/ \E a \in ArgLists, d \in BOOLEAN : CallSpawn(a, d)
    \/ SpawnFork
    \/ SpawnForkFail
    \/ SpawnParentReturn
    \/ ChildSetsid
    \/ ChildSetsidFail
    \/ ChildBuildArgv
    \/ \E pr \in Programs : ChildExecvp(pr)
    \/ ChildExecvpFail
    \/ \E a \in ArgLists : CallExec(a)
    \/ \E p \in PipeNames : ExecPipe(p)
    \/ \E p \in PipeNames : ExecPipeFail(p)
    \/ ExecFork
    \/ ExecForkFail
    \/ \E p \in PipeNames : ChildDup2(p)
    \/ \E p \in PipeNames : ChildDup2Fail(p)
    \/ \E p \in PipeNames : ParentClose(p)
    \/ Waitpid
    \/ WaitpidFail
    \/ \E s \in Streams : ReadAllFdEnter(s)
    \/ \E s \in Streams : ReadAllFdRead(s)
    \/ \E s \in Streams : ReadAllFdError(s)
    \/ ProgReadStdin
    \/ ProgWrite
    \/ ProgExit
Spec == Init /\ [][Next]_vars
SpecFair == Init /\ [][Next]_vars /\ WF_vars(SpawnParentReturn)

(* os.cpp 45: the read of whichever drain the parent is in.                *)
DrainRead == \E s \in Streams : ReadAllFdRead(s)

(* The parent, once in a read that can return, gets its result.            *)
SpecDrainFair == Init /\ [][Next]_vars /\ WF_vars(DrainRead)

----------------------------------------------------------------------------
(* Claims                                                                  *)

(* The child is in a write to a pipe that has no room. *)
ChildBlockedWriting ==
    /\ cpc \in {"prog_write1", "prog_write2"}
    /\ WriteBlocked(PhaseStream(cpc))

(* The parent is in a read of a pipe that is empty and still has a writer. *)
ParentBlockedReading ==
    \E s \in Streams : ppc = ReadPc(s) /\ ~CanRead(PipeOfFd(pipefd[s][1]))

(* C1: os_exec_process does not deadlock on the volume of output: in no    *)
(* reachable state is the parent blocked in waitpid, or blocked draining   *)
(* the other pipe, while the child is blocked writing to a full pipe.      *)
C1_NoOutputDeadlock ==
    ~(/\ call = "exec"
      /\ ChildBlockedWriting
      /\ (ppc = "waitpid" \/ ParentBlockedReading))

(* The call os_exec_process has returned, waitpid having reported the      *)
(* status of a child that ran its program to its exit.                     *)
ExecReturnedAfterExit ==
    /\ call = "exec"
    /\ ppc = "returned"
    /\ cpc = "exited"
    /\ return_code # <<>>

(* C2: for a child that writes S to its standard output and exits with     *)
(* code 0, os_exec_process returns out_stdout = S, for every length of S,  *)
(* and an exit status of 0 (stated for the runs in which waitpid reported  *)
(* the child's status).                                                    *)
C2_StdoutIsWhatChildWrote ==
    (ExecReturnedAfterExit /\ prog.code = 0)
        => /\ out_stdout = Stream("out", prog.outLen)
           /\ return_code = <<0>>

(* C3: for a child that writes S to stdout and E to stderr and exits with  *)
(* a nonzero code c, os_exec_process returns a return_code that carries    *)
(* the exit code c, out_stdout = S and out_stderr = E (stated for the runs *)
(* in which waitpid reported the child's status).                          *)
C3_NonzeroExitAndOutput ==
    (ExecReturnedAfterExit /\ prog.code # 0)
        => /\ WIFEXITED(return_code[1])
           /\ WEXITSTATUS(return_code[1]) = prog.code
           /\ out_stdout = Stream("out", prog.outLen)
           /\ out_stderr = Stream("err", prog.errLen)

(* The path ends in exactly one separator. *)
OneTrailingSeparator(p) ==
    /\ Len(p) >= 1
    /\ p[Len(p)] = "/"
    /\ Len(p) = 1 \/ p[Len(p) - 1] # "/"

HasSeparator(p) == \E i \in 1..Len(p) : p[i] = "/"

(* C4: os_path_split gives ("a/b", "c") for "a/b/c", (".", "noslash") for  *)
(* "noslash" and ("a", "b") for "a/b/"; for a path with one trailing       *)
(* separator the basename does not include that separator.                 *)
C4_SplitExamples ==
    s_pc = "done" =>
        /\ full_path = <<"a", "/", "b", "/", "c">>
              => /\ out_dirname = <<"a", "/", "b">>
                 /\ out_basename = <<"c">>
        /\ full_path = <<"n", "o", "s", "l", "a", "s", "h">>
              => /\ out_dirname = <<".">>
                 /\ out_basename = <<"n", "o", "s", "l", "a", "s", "h">>
        /\ full_path = <<"a", "/", "b", "/">>
              => /\ out_dirname = <<"a">>
                 /\ out_basename = <<"b">>
        /\ OneTrailingSeparator(full_path)
              => \/ out_basename = <<>>
                 \/ out_basename[Len(out_basename)] # "/"

(* C5: for every path P with at least one '/', dirname + "/" + basename    *)
(* is P when P has no trailing separator, and is P without its trailing    *)
(* separator when P ends in a single one.                                  *)
C5_SplitRejoin ==
    (s_pc = "done" /\ HasSeparator(full_path)) =>
        LET joined == out_dirname \o <<"/">> \o out_basename
        IN  /\ full_path[Len(full_path)] # "/" => joined = full_path
            /\ OneTrailingSeparator(full_path)
                  => joined = SubSeq(full_path, 1, Len(full_path) - 1)

(* C6: an os_write_file(p, B) that returns leaves the file at p with       *)
(* content exactly B, whatever was at p before.                            *)
C6_WriteFileRoundTrip ==
    w_pc = "returned" => fs[w_path] = File(w_contents)

(* C6, its case: the call returned and the file it replaced was longer     *)
(* than the buffer written.                                                *)
C6_Witness ==
    /\ w_pc = "returned"
    /\ w_prior.exists
    /\ Len(w_prior.content) > Len(w_contents)

(* C7: os_write_file does not return after a failure of open, write        *)
(* (any count but the buffer's length) or close: the process is ended by   *)
(* zig_panic; and write is called at most once per call.                   *)
C7_WriteFailureIsFatal ==
    /\ w_failed => w_pc = "panicked"
    /\ w_pc = "returned" => amt_written = buf_len(w_contents) /\ ~w_fd
    /\ w_nwrites <= 1

(* C7, its case: a short write ended the process.                          *)
C7_Witness ==
    /\ w_pc = "panicked"
    /\ w_nwrites = 1
    /\ amt_written >= 0
    /\ amt_written < buf_len(w_contents)

(* The child's standard streams are the three pipe ends.                   *)
ChildStreamsRedirected ==
    /\ fdt["child"][0] = ReadEnd("in")
    /\ fdt["child"][1] = WriteEnd("out")
    /\ fdt["child"][2] = WriteEnd("err")

(* C8: in os_exec_process a failed pipe, fork or dup2 ends the process it  *)
(* failed in through zig_panic, and the child is never at execvp, or       *)
(* beyond it, with a standard stream that is not redirected.               *)
C8_ExecSetupFailureIsFatal ==
    call = "exec" =>
        /\ "parent" \in setup_failed => ppc = "panicked"
        /\ "child" \in setup_failed => cpc = "panicked"
        /\ cpc \in {"execvp", "prog_stdin", "prog_write1", "prog_write2",
                    "prog_exit"} => ChildStreamsRedirected

(* C8, its case: a dup2 failed in the child, which was ended.              *)
C8_Witness ==
    /\ call = "exec"
    /\ "child" \in setup_failed
    /\ cpc = "panicked"

(* C9: in os_spawn_process and os_exec_process a child whose execvp failed *)
(* is ended inside the child: it never returns from the function and never *)
(* is at a statement of the parent's branch.                               *)
C9_ChildExecFailureIsFatal ==
    /\ exec_failed => cpc = "panicked"
    /\ cpc \notin {"returned", "spawn_parent", "close_in", "close_out",
                   "close_err", "waitpid", "read_out_enter", "read_out",
                   "read_err_enter", "read_err"}

(* C9, its case: execvp failed in the child of os_exec_process while the   *)
(* parent is in its own branch.                                            *)
C9_Witness ==
    /\ call = "exec"
    /\ exec_failed
    /\ cpc = "panicked"
    /\ ppc = "waitpid"

(* C10: after a successful fork os_spawn_process returns in the parent     *)
(* whatever the child does, and the parent never waits for the child.      *)
C10_SpawnReturnsWithoutWaiting ==
    /\ (ppc = "spawn_parent") ~> (ppc = "returned")
    /\ [](call = "spawn" => ~waited)

(* C10, its case: the parent has returned and the child has not yet        *)
(* executed the program.                                                   *)
C10_Witness ==
    /\ call = "spawn"
    /\ ppc = "returned"
    /\ cpc \in {"setsid", "argv", "execvp"}

(* C11: os_exec_process leaks no descriptor: when a call has returned,     *)
(* the descriptors open in the calling process are those open before the   *)
(* call, all six pipe ends being closed in the parent.                     *)
C11_NoDescriptorLeak ==
    (call = "exec" /\ ppc = "returned") => fdt["parent"] = StdTable

(* C12: when os_exec_process returns, the child has terminated and         *)
(* return_code holds the wait status of that child, also in a run in which *)
(* waitpid itself fails or is interrupted.                                 *)
C12_ReturnsStatusOfTerminatedChild ==
    (call = "exec" /\ ppc = "returned")
        => /\ ChildHasTerminated
           /\ return_code # <<>>
           /\ return_code = cstatus

(* C13: after the fork in os_exec_process every pipe end is open in its    *)
(* owner only: once the parent is past its closes it holds no input read   *)
(* end and no output or error write end, and the child that has executed   *)
(* the program holds no input write end and no output or error read end.   *)
C13_OneOwnerPerPipeEnd ==
    call = "exec" =>
        /\ ppc \in {"waitpid", "read_out_enter", "read_out",
                    "read_err_enter", "read_err", "returned"}
              => "parent" \notin Holders(fdt, ReadEnd("in"))
                                 \cup Holders(fdt, WriteEnd("out"))
                                 \cup Holders(fdt, WriteEnd("err"))
        /\ cpc \in {"prog_stdin", "prog_write1", "prog_write2", "prog_exit"}
              => "child" \notin Holders(fdt, WriteEnd("in"))
                                \cup Holders(fdt, ReadEnd("out"))
                                \cup Holders(fdt, ReadEnd("err"))

(* C20: a child of os_exec_process that reads its standard input to the    *)
(* end finds the end: in no reachable state is the parent in waitpid while *)
(* the child is blocked reading the empty input pipe whose write end some  *)
(* process still holds and will neither write nor close.                   *)
C20_StdinReachesEnd ==
    ~(/\ call = "exec"
      /\ ppc = "waitpid"
      /\ cpc = "prog_stdin"
      /\ pipes["in"] = <<>>
      /\ Holders(fdt, WriteEnd("in")) # {})

(* C16: in os_spawn_process and os_exec_process the vector passed to       *)
(* execvp has args.length + 2 slots: slot 0 is the executable path, slot   *)
(* i + 1 is args.at(i) in order, the last slot is the null sentinel, and   *)
(* no earlier slot is null.                                                *)
C16_ArgvVector ==
    cpc \in {"execvp", "prog_stdin", "prog_write1", "prog_write2",
             "prog_exit"} =>
        LET N == Len(args)
        IN  /\ DOMAIN argv = 0..(N + 1)
            /\ argv[0] = exe
            /\ \A i \in 0..(N - 1) : argv[i + 1] = args[i + 1]
            /\ argv[N + 1] = nullptr
            /\ \A k \in 0..N : argv[k] # nullptr

(* C16, its case: the child of os_spawn_process is at execvp with two      *)
(* different arguments.                                                    *)
C16_Witness ==
    /\ call = "spawn"
    /\ cpc = "execvp"
    /\ Len(args) = 2
    /\ args[1] # args[2]
    /\ argv[2] = args[2]

(* No separator at any position but, possibly, the last one. *)
NoSeparatorBeforeEnd(p) == \A i \in 1..(Len(p) - 1) : p[i] # "/"

(* C17: when the backward scan of os_path_split finds no separator,        *)
(* dirname is "." and basename is the whole input, a skipped trailing      *)
(* separator included.                                                     *)
C17_NoSeparatorFound ==
    (s_pc = "done" /\ NoSeparatorBeforeEnd(full_path))
        => /\ out_dirname = <<".">>
           /\ out_basename = full_path

(* C17, its case: "a/", whose only separator is the one skipped.           *)
C17_Witness ==
    /\ s_pc = "done"
    /\ full_path = <<"a", "/">>
    /\ out_dirname = <<".">>
    /\ out_basename = <<"a", "/">>

(* C19: os_path_split is total and memory-safe for every input, the empty  *)
(* string and all-separator paths included: the call completes, every      *)
(* index it reads is in 0 .. len - 1, and every range it copies has        *)
(* 0 <= offset, 0 <= length and offset + length <= len.                    *)
C19_SplitIsMemorySafe ==
    /\ s_pc = "call" => ENABLED SplitCall
    /\ s_pc = "done" =>
          /\ \A i \in s_reads : 0 <= i /\ i <= Len(full_path) - 1
          /\ \A c \in s_copies :
                /\ 0 <= c.off
                /\ 0 <= c.len
                /\ c.off + c.len <= Len(full_path)

(* C19, its case: the all-separator path "//", split at its first          *)
(* separator.                                                              *)
C19_Witness ==
    /\ s_pc = "done"
    /\ full_path = <<"/", "/">>
    /\ s_reads = {0, 1}
    /\ s_copies = {[off |-> 0, len |-> 0], [off |-> 1, len |-> 1]}

(* read_all_fd(fd, out_stream) has returned to os_exec_process.            *)
ReadAllFdReturned(s) ==
    /\ call = "exec"
    /\ IF s = "out"
       THEN ppc \in {AfterRead("out"), ReadPc("err"), AfterRead("err")}
       ELSE ppc = AfterRead("err")

(* C14: when read_all_fd returns, the length of its buffer is the sum of   *)
(* the byte counts its reads returned (0 for an empty stream), and no read *)
(* of the loop asks for more bytes than the buffer has room for.           *)
C14_BufferFinalized ==
    /\ \A s \in Streams :
          ReadAllFdReturned(s) => BufLen(out_buf[s]) = total_read[s]
    /\ last_read.count <= last_read.room

(* C14 witness: both drains returned, the first after reads that returned  *)
(* more than one chunk in total, the second after one read that returned 0.*)
C14_Witness ==
    /\ ReadAllFdReturned("err")
    /\ total_read["out"] > buf_size
    /\ BufLen(out_stdout) = total_read["out"]
    /\ total_read["err"] = 0
    /\ out_stderr = <<>>
    /\ last_read.count = buf_size

(* C18 as stated: read_all_fd starts from a buffer of buf_size bytes, and  *)
(* every read that returns bytes is followed by a doubling of the buffer.  *)
C18_GrowthDoubles ==
    [][\A s \in Streams :
          /\ (ppc = EnterPc(s) /\ ppc' = ReadPc(s))
                => BufLen(out_buf'[s]) = buf_size
          /\ (ppc = ReadPc(s) /\ total_read'[s] > total_read[s])
                => BufLen(out_buf'[s]) = 2 * BufLen(out_buf[s])]_vars

(* C18 amended: read_all_fd starts from a buffer of buf_size bytes, and    *)
(* every read that returns bytes is followed by a resize of the buffer to  *)
(* the number of bytes read so far plus buf_size.                          *)
C18_GrowthAddsChunk ==
    [][\A s \in Streams :
          /\ (ppc = EnterPc(s) /\ ppc' = ReadPc(s))
                => BufLen(out_buf'[s]) = buf_size
          /\ (ppc = ReadPc(s) /\ total_read'[s] > total_read[s])
                => BufLen(out_buf'[s]) = total_read'[s] + buf_size]_vars

(* C18 witness: the loop is about to read again after one read that        *)
(* returned a single byte; the buffer grew from buf_size to buf_size + 1.  *)
C18_Witness ==
    /\ ppc = ReadPc("out")
    /\ total_read["out"] = 1
    /\ BufLen(out_buf["out"]) = buf_size + 1

(* The read of read_all_fd on stream s cannot block: nobody holds the      *)
(* write end of its pipe, or bytes are waiting in the pipe.                *)
DrainCanRead(s) == CanRead(PipeOfFd(pipefd[s][1]))

(* The parent is in the loop of read_all_fd on stream s and the child has  *)
(* terminated.                                                             *)
Draining(s) == call = "exec" /\ ppc = ReadPc(s) /\ ChildHasTerminated

(* C15: once the child has terminated, each drain of os_exec_process       *)
(* leaves its loop: its read is never blocked, because the parent closed   *)
(* its write ends before draining, and after finitely many reads the loop  *)
(* ends by a read that returns 0 (or by the fatal error of a failed read). *)
C15_DrainsTerminate ==
    /\ [](\A s \in Streams : Draining(s) => DrainCanRead(s))
    /\ (\E s \in Streams : Draining(s))
          ~> (ppc \in {AfterRead("out"), AfterRead("err"), zig_panic})

(* C15 witness: the child has terminated, the second drain has read the    *)
(* whole error stream in more than one read, and the next read returns 0.  *)
C15_Witness ==
    /\ call = "exec"
    /\ ppc = ReadPc("err")
    /\ ChildHasTerminated
    /\ total_read["err"] > buf_size
    /\ pipes["err"] = <<>>
    /\ DrainCanRead("err")

====
